---- MODULE Spec2Model ----
(***************************************************************************)
(* whatsapp_stats (src/src/main.rs): parse turns the lines of a transcript *)
(* into Messages, compute_stats folds Messages into per-author Stats,      *)
(* print_stats sorts and prints them, main wires the three together.       *)
(*                                                                         *)
(* A text (a line, a message body, an author) is a sequence of symbols.    *)
(* A symbol is one character ("a", "b", "w", ":", " ", "\n"), a bracketed  *)
(* date/time stamp such as "[1/1/24, 12:00:00 AM]" (the part of a line the *)
(* regex of parse matches before "] " closes it), or Bulk, a run of        *)
(* F32Exact words separated by single spaces.                              *)
(***************************************************************************)
EXTENDS Integers, Sequences, FiniteSets, TLC

VARIABLES content, pos, messages, buffer, current_timestamp, current_author,
          pc, args, grouped, stdout, stats, permuted, pstats

vars == <<content, pos, messages, buffer, current_timestamp, current_author,
          pc, args, grouped, stdout, stats, permuted, pstats>>

(***************************************************************************)
(* Bounds of the model.                                                    *)
(***************************************************************************)
\* lines of a transcript given to parse alone
MaxLines == 3
\* lines of a transcript given to the whole program
MaxFileLines == 3
\* messages of a slice given to compute_stats alone
MaxMsgs == 3

(***************************************************************************)
(* Dates and times: the two captures of the header regex and what          *)
(* NaiveDateTime::parse_from_str("%m/%d/%y %I:%M:%S %p") makes of them.    *)
(***************************************************************************)
StampFields ==
    [s \in {"[12/31/23, 11:59:59 PM]", "[1/1/24, 12:00:00 AM]",
            "[1/2/99, 9:05:07 AM]", "[13/1/24, 9:05:07 AM]",
            "[2/30/24, 1:00:00 PM]"} |->
        CASE s = "[12/31/23, 11:59:59 PM]" ->
                 [mo |-> 12, d |-> 31, yy |-> 23, h |-> 11, mi |-> 59, s |-> 59, pm |-> TRUE]
          [] s = "[1/1/24, 12:00:00 AM]" ->
                 [mo |-> 1, d |-> 1, yy |-> 24, h |-> 12, mi |-> 0, s |-> 0, pm |-> FALSE]
          [] s = "[1/2/99, 9:05:07 AM]" ->
                 [mo |-> 1, d |-> 2, yy |-> 99, h |-> 9, mi |-> 5, s |-> 7, pm |-> FALSE]
          [] s = "[13/1/24, 9:05:07 AM]" ->
                 [mo |-> 13, d |-> 1, yy |-> 24, h |-> 9, mi |-> 5, s |-> 7, pm |-> FALSE]
          [] s = "[2/30/24, 1:00:00 PM]" ->
                 [mo |-> 2, d |-> 30, yy |-> 24, h |-> 1, mi |-> 0, s |-> 0, pm |-> TRUE]]

Stamps == DOMAIN StampFields

\* %y: a two-digit year below 70 is 20YY, from 70 on 19YY
FullYear(yy) == IF yy < 70 THEN 2000 + yy ELSE 1900 + yy

IsLeap(y) == (y % 4 = 0 /\ y % 100 # 0) \/ y % 400 = 0

DaysIn(mo, y) ==
    IF mo = 2 THEN (IF IsLeap(y) THEN 29 ELSE 28)
    ELSE IF mo \in {4, 6, 9, 11} THEN 30 ELSE 31

\* whether parse_from_str returns Ok: %m 1-12, %d a day of that month,
\* %I 1-12, %M 0-59, %S 0-60
DateParses(f) ==
    /\ f.mo \in 1..12
    /\ f.d >= 1 /\ f.d <= DaysIn(f.mo, FullYear(f.yy))
    /\ f.h \in 1..12
    /\ f.mi \in 0..59
    /\ f.s \in 0..60

\* the instant parse_from_str returns, the zero offset attached: a 12-hour
\* clock reading becomes an hour of 0..23
ParseFromStr(f) ==
    [year |-> FullYear(f.yy), month |-> f.mo, day |-> f.d,
     hour |-> (f.h % 12) + (IF f.pm THEN 12 ELSE 0),
     minute |-> f.mi, second |-> f.s]

\* Option::None of current_timestamp
NoTimestamp ==
    [year |-> 0, month |-> 0, day |-> 0, hour |-> 0, minute |-> 0, second |-> 0]

TsKey(t) == <<t.year, t.month, t.day, t.hour, t.minute, t.second>>

RECURSIVE LexLess(_, _, _)
LexLess(a, b, i) ==
    IF i > Len(a) \/ i > Len(b) THEN Len(a) < Len(b) /\ i > Len(a)
    ELSE IF a[i] # b[i] THEN a[i] < b[i]
    ELSE LexLess(a, b, i + 1)

\* DateTime's `<`: the order of the instants
TsLess(t, u) == LexLess(TsKey(t), TsKey(u), 1)

(***************************************************************************)
(* Text: whitespace, trim, split_whitespace().count().                     *)
(***************************************************************************)
\* 2^24: every integer up to it is an f32, and not every one above it
F32Exact == 16777216

Bulk == "<16777216 words>"

IsWhitespace(c) == c \in {" ", "\n"}

\* the words a symbol that is not whitespace holds: a stamp has a space after
\* its comma and U+202F before AM/PM, both whitespace to split_whitespace
WordsIn(c) == IF c \in Stamps THEN 3 ELSE IF c = Bulk THEN F32Exact ELSE 1

RECURSIVE CountFrom(_, _, _)
CountFrom(text, i, inWord) ==
    IF i > Len(text) THEN 0
    ELSE IF IsWhitespace(text[i]) THEN CountFrom(text, i + 1, FALSE)
    ELSE WordsIn(text[i]) - (IF inWord THEN 1 ELSE 0) + CountFrom(text, i + 1, TRUE)

\* text.split_whitespace().count()
WordCount(text) == CountFrom(text, 1, FALSE)

RECURSIVE TrimStart(_)
TrimStart(text) ==
    IF text # <<>> /\ IsWhitespace(Head(text)) THEN TrimStart(Tail(text)) ELSE text

RECURSIVE TrimEnd(_)
TrimEnd(text) ==
    IF text # <<>> /\ IsWhitespace(text[Len(text)])
    THEN TrimEnd(SubSeq(text, 1, Len(text) - 1)) ELSE text

\* str::trim
Trim(text) == TrimEnd(TrimStart(text))

(***************************************************************************)
(* The header regex: at the start of the line a stamp, "] ", the shortest   *)
(* run up to a ": " (the author) and the remainder of the line (the rest). *)
(***************************************************************************)
SepAt(line, i) == i + 1 <= Len(line) /\ line[i] = ":" /\ line[i + 1] = " "

\* re.captures(line) is Some
IsHeader(line) ==
    /\ Len(line) >= 2
    /\ line[1] \in Stamps
    /\ line[2] = " "
    /\ \E i \in 3..Len(line) : SepAt(line, i)

\* where the lazy author group stops: the first ": " after "] "
FirstSep(line) ==
    CHOOSE i \in 3..Len(line) :
        SepAt(line, i) /\ \A j \in 3..(i - 1) : ~SepAt(line, j)

\* caps[1] and caps[2], caps[3], caps[4]
CapDate(line) == StampFields[line[1]]
CapAuthor(line) == SubSeq(line, 3, FirstSep(line) - 1)
CapRest(line) == SubSeq(line, FirstSep(line) + 2, Len(line))

(***************************************************************************)
(* parse, one iteration of its loop at a time.                             *)
(***************************************************************************)
Message(ts, author, buf) == [timestamp |-> ts, author |-> author, text |-> Trim(buf)]

\* PushPending that drops a message whose text is empty
PushPendingSkipEmpty(msgs, ts, author, buf) ==
    IF ts # NoTimestamp /\ Trim(buf) # <<>>
    THEN Append(msgs, [timestamp |-> ts, author |-> author, text |-> Trim(buf)])
    ELSE msgs

\* if let Some(timestamp) = current_timestamp.take() { messages.push(..) }
PushPending(msgs, ts, author, buf) ==
    IF ts # NoTimestamp THEN Append(msgs, Message(ts, author, buf)) ELSE msgs

\* PushLine without the newline
PushLineNoNewline(buf, line) == buf \o line

\* buffer.push('\n'); buffer.push_str(line)
PushLine(buf, line) == buf \o <<"\n">> \o line

\* ParseHeader that reads a header whose date does not parse as a
\* continuation line instead of panicking
ParseHeaderSkipBadDate ==
    /\ pc = "parse"
    /\ pos < Len(content)
    /\ LET line == content[pos + 1] IN
        /\ IsHeader(line)
        /\ IF DateParses(CapDate(line))
           THEN /\ messages' = PushPending(messages, current_timestamp, current_author, buffer)
                /\ current_timestamp' = ParseFromStr(CapDate(line))
                /\ current_author' = CapAuthor(line)
                /\ buffer' = CapRest(line)
           ELSE /\ buffer' = PushLine(buffer, line)
                /\ UNCHANGED <<messages, current_timestamp, current_author>>
    /\ pos' = pos + 1
    /\ UNCHANGED <<content, pc, args, grouped, stdout, stats, permuted, pstats>>

ParseHeader ==
    /\ pc = "parse"
    /\ pos < Len(content)
    /\ LET line == content[pos + 1] IN
        /\ IsHeader(line)
        /\ messages' = PushPending(messages, current_timestamp, current_author, buffer)
        /\ IF DateParses(CapDate(line))
           THEN /\ current_timestamp' = ParseFromStr(CapDate(line))
                /\ current_author' = CapAuthor(line)
                /\ buffer' = CapRest(line)
                /\ pos' = pos + 1
                /\ pc' = "parse"
           ELSE \* unwrap() of an Err: the thread panics
                /\ current_timestamp' = NoTimestamp
                /\ pc' = "panicked"
                /\ UNCHANGED <<current_author, buffer, pos>>
    /\ UNCHANGED <<content, args, grouped, stdout, stats, permuted, pstats>>

ParseContinuation ==
    /\ pc = "parse"
    /\ pos < Len(content)
    /\ ~IsHeader(content[pos + 1])
    /\ buffer' = PushLine(buffer, content[pos + 1])
    /\ pos' = pos + 1
    /\ UNCHANGED <<content, messages, current_timestamp, current_author, pc,
                   args, grouped, stdout, stats, permuted, pstats>>

ParseEnd ==
    /\ pc = "parse"
    /\ pos = Len(content)
    /\ messages' = PushPending(messages, current_timestamp, current_author, buffer)
    /\ pc' = "parsed"
    /\ UNCHANGED <<content, pos, buffer, current_timestamp, current_author,
                   args, grouped, stdout, stats, permuted, pstats>>

(***************************************************************************)
(* Transcripts.                                                            *)
(***************************************************************************)
SeqsUpTo(S, n) == UNION {[1..k -> S] : k \in 0..n}

ParseLinesSet ==
    { <<"[12/31/23, 11:59:59 PM]", " ", "a", ":", " ", "w", " ", "w">>,
      <<"[1/1/24, 12:00:00 AM]", " ", "b", ":", " ", "w", " ">>,
      <<"[1/2/99, 9:05:07 AM]", " ", "a", ":", " ">>,
      <<"[1/1/24, 12:00:00 AM]", " ", "a", ":", " ", "b", ":", " ", "w">>,
      <<"[1/1/24, 12:00:00 AM]", " ", ":", " ", "w">>,
      <<"[13/1/24, 9:05:07 AM]", " ", "a", ":", " ", "w">>,
      <<"[12/31/23, 11:59:59 PM]", " ", "a">>,
      <<"[13/1/24, 9:05:07 AM]", " ", "w">>,
      <<>>,
      <<" ", "w", " ">>,
      <<"w">>,
      <<"w", " ", "[1/1/24, 12:00:00 AM]", " ", "a", ":", " ", "w">>,
      <<"[1/1/24, 12:00:00 AM]", " ", "a", ":", "w">>,
      <<"[1/1/24, 12:00:00 AM]", "a", ":", " ", "w">> }

NoArgs == [user |-> FALSE, year |-> FALSE, pretty |-> FALSE, sort |-> "Messages"]

InitParse ==
    /\ content \in SeqsUpTo(ParseLinesSet, MaxLines)
    /\ pos = 0
    /\ messages = <<>>
    /\ buffer = <<>>
    /\ current_timestamp = NoTimestamp
    /\ current_author = <<>>
    /\ pc = "parse"
    /\ args = NoArgs
    /\ grouped = <<>>
    /\ stdout = <<>>
    /\ stats = <<>>
    /\ permuted = <<>>
    /\ pstats = <<>>

NextParse == ParseHeader \/ ParseContinuation \/ ParseEnd

SpecParse == InitParse /\ [][NextParse]_vars

(***************************************************************************)
(* f32.  A finite value is m * 2^e with 2^23 <= m < 2^24, or zero; NaN is  *)
(* the result of 0.0 / 0.0.  Rounding is to nearest, ties to even.         *)
(***************************************************************************)
RECURSIVE Pow2(_)
Pow2(n) == IF n = 0 THEN 1 ELSE 2 * Pow2(n - 1)

F32Zero == [m |-> 0, e |-> 0]
F32NaN == [m |-> -1, e |-> 0]

\* the bits n has above the 24 of a mantissa (n >= 2^23)
RECURSIVE ExtraBits(_)
ExtraBits(n) == IF n < F32Exact THEN 0 ELSE 1 + ExtraBits(n \div 2)

\* the f32 nearest to (n + f) * 2^e, where 0 <= f < 1 and f > 0 iff sticky;
\* with sticky set n has at least two bits more than a mantissa
RECURSIVE F32Round(_, _, _)
F32Round(n, e, sticky) ==
    IF n = 0 THEN F32Zero
    ELSE IF n < F32Exact \div 2 THEN F32Round(2 * n, e - 1, sticky)
    ELSE LET k == ExtraBits(n)
             q == n \div Pow2(k)
             r == n % Pow2(k)
             half == IF k = 0 THEN 1 ELSE Pow2(k - 1)
             up == /\ k > 0
                   /\ \/ r > half
                      \/ r = half /\ (sticky \/ q % 2 = 1)
             m == IF up THEN q + 1 ELSE q
         IN  IF m = F32Exact THEN [m |-> F32Exact \div 2, e |-> e + k + 1]
             ELSE [m |-> m, e |-> e + k]

\* n as f32, for 0 <= n < 2^31
F32FromInt(n) == F32Round(n, 0, FALSE)

\* the integer an integer-valued f32 is
F32ToInt(x) == IF x.e >= 0 THEN x.m * Pow2(x.e) ELSE x.m \div Pow2(0 - x.e)

\* x + y of two non-negative integer-valued f32
F32Add(x, y) == F32Round(F32ToInt(x) + F32ToInt(y), 0, FALSE)

\* long division: <<q, t, r>> with a * 2^t = q * b + r, 0 <= r < b, q of 26 bits
RECURSIVE DivBits(_, _, _, _)
DivBits(q, r, b, t) ==
    IF q >= 2 * F32Exact THEN <<q, t, r>>
    ELSE IF 2 * r >= b THEN DivBits(2 * q + 1, 2 * r - b, b, t + 1)
    ELSE DivBits(2 * q, 2 * r, b, t + 1)

\* x / y of two non-negative integer-valued f32 with x / y < 2^26
F32Div(x, y) ==
    LET a == F32ToInt(x)
        b == F32ToInt(y)
    IN  IF b = 0 THEN F32NaN  \* 0.0 / 0.0; a positive x over 0.0 does not arise
        ELSE IF a = 0 THEN F32Zero
        ELSE LET d == DivBits(a \div b, a % b, b, 0)
             IN  F32Round(d[1], 0 - d[2], d[3] # 0)

\* x * 100.0
F32Mul100(x) == IF x = F32NaN THEN F32NaN ELSE F32Round(x.m * 100, x.e, FALSE)

(***************************************************************************)
(* compute_stats.                                                          *)
(***************************************************************************)
\* messages.len() as f32
TotalMessages(msgs) == F32FromInt(Len(msgs))

\* messages.iter().map(|m| count as f32).sum(): a left fold of f32 additions
RECURSIVE TotalWords(_)
TotalWords(msgs) ==
    IF msgs = <<>> THEN F32Zero
    ELSE F32Add(TotalWords(SubSeq(msgs, 1, Len(msgs) - 1)),
                F32FromInt(WordCount(msgs[Len(msgs)].text)))

\* FirstMessage that keeps the timestamp of the first message visited
FirstMessageFirstSeen(first, ts) == first

\* if m.timestamp < entry.first_message { entry.first_message = m.timestamp }
FirstMessage(first, ts) == IF TsLess(ts, first) THEN ts ELSE first

\* the Stat or_insert_with makes for an author the map does not hold
NewStat(m) ==
    [user |-> m.author, num_messages |-> 0, num_words |-> 0,
     first_message |-> m.timestamp,
     percent_messages |-> F32Zero, percent_words |-> F32Zero]

\* Visit that counts a message only when its author already has an entry
VisitExistingOnly(map, m) ==
    IF m.author \in DOMAIN map
    THEN [map EXCEPT ![m.author] =
            [@ EXCEPT !.num_messages = @ + 1,
                      !.num_words = @ + WordCount(m.text),
                      !.first_message = FirstMessage(@, m.timestamp)]]
    ELSE [a \in DOMAIN map \cup {m.author} |->
            IF a = m.author THEN NewStat(m) ELSE map[a]]

\* the body of `for m in messages`: the map is a function from authors to Stats
Visit(map, m) ==
    LET entry == IF m.author \in DOMAIN map THEN map[m.author] ELSE NewStat(m)
        updated == [entry EXCEPT !.num_messages = @ + 1,
                                 !.num_words = @ + WordCount(m.text),
                                 !.first_message = FirstMessage(@, m.timestamp)]
    IN  [a \in DOMAIN map \cup {m.author} |->
            IF a = m.author THEN updated ELSE map[a]]

RECURSIVE VisitAll(_)
VisitAll(msgs) ==
    IF msgs = <<>> THEN <<>>
    ELSE Visit(VisitAll(SubSeq(msgs, 1, Len(msgs) - 1)), msgs[Len(msgs)])

\* the body of `for stat in map.values_mut()`
Percent(stat, total_messages, total_words) ==
    [stat EXCEPT
        !.percent_messages =
            F32Mul100(F32Div(F32FromInt(stat.num_messages), total_messages)),
        !.percent_words =
            F32Mul100(F32Div(F32FromInt(stat.num_words), total_words))]

\* the map compute_stats holds before it returns
StatMap(msgs) ==
    LET map == VisitAll(msgs)
    IN  [a \in DOMAIN map |->
            Percent(map[a], TotalMessages(msgs), TotalWords(msgs))]

\* the rearrangements of n places
Orders(n) == {p \in [1..n -> 1..n] : \A i, j \in 1..n : p[i] = p[j] => i = j}

\* map.into_values().collect(): the Stats in the order the hash map iterates
IntoValues(map) ==
    LET keys == DOMAIN map
        n == Cardinality(keys)
    IN  {[i \in 1..n |-> map[k[i]]] :
            k \in {f \in [1..n -> keys] : \A i, j \in 1..n : f[i] = f[j] => i = j}}

\* the Vecs compute_stats may return
ComputeStats(msgs) == IntoValues(StatMap(msgs))

(***************************************************************************)
(* compute_stats on its own, on any slice of Messages.                     *)
(***************************************************************************)
AggAuthors == {<<"a">>, <<"b">>}
AggTexts == {<<>>, <<"w">>, <<Bulk>>}
AggTimestamps ==
    {ParseFromStr(StampFields[s]) : s \in {"[12/31/23, 11:59:59 PM]", "[1/1/24, 12:00:00 AM]"}}

AggMessages == [timestamp : AggTimestamps, author : AggAuthors, text : AggTexts]

Aggregate ==
    /\ pc = "slice"
    /\ stats' \in ComputeStats(messages)
    /\ pc' = "aggregated"
    /\ UNCHANGED <<content, pos, messages, buffer, current_timestamp,
                   current_author, args, grouped, stdout, permuted, pstats>>

\* the same call on a rearrangement of the slice
AggregatePermuted ==
    /\ pc = "aggregated"
    /\ \E p \in Orders(Len(messages)) :
          /\ permuted' = [i \in 1..Len(messages) |-> messages[p[i]]]
          /\ pstats' \in ComputeStats(permuted')
    /\ pc' = "both"
    /\ UNCHANGED <<content, pos, messages, buffer, current_timestamp,
                   current_author, args, grouped, stdout, stats>>

InitAgg ==
    /\ content = <<>>
    /\ pos = 0
    /\ messages \in SeqsUpTo(AggMessages, MaxMsgs)
    /\ buffer = <<>>
    /\ current_timestamp = NoTimestamp
    /\ current_author = <<>>
    /\ pc = "slice"
    /\ args = NoArgs
    /\ grouped = <<>>
    /\ stdout = <<>>
    /\ stats = <<>>
    /\ permuted = <<>>
    /\ pstats = <<>>

NextAgg == Aggregate

SpecAgg == InitAgg /\ [][NextAgg]_vars

NextPerm == Aggregate \/ AggregatePermuted

SpecPerm == InitAgg /\ [][NextPerm]_vars

(***************************************************************************)
(* print_stats: what it writes to standard output, one item per println!.  *)
(* An item is a heading, a plain line (one Stat) or a table (its rows).    *)
(***************************************************************************)
SortKey(stat, sort) == IF sort = "Messages" THEN stat.num_messages ELSE stat.num_words

\* where a stable sort by Reverse(key) puts x among the elements before it
RECURSIVE InsertDesc(_, _, _)
InsertDesc(sorted, x, sort) ==
    IF sorted = <<>> THEN <<x>>
    ELSE IF SortKey(sorted[Len(sorted)], sort) >= SortKey(x, sort)
         THEN Append(sorted, x)
         ELSE Append(InsertDesc(SubSeq(sorted, 1, Len(sorted) - 1), x, sort),
                     sorted[Len(sorted)])

\* stats.sort_by_key(|s| Reverse(key)): stable, descending
RECURSIVE SortByKey(_, _)
SortByKey(st, sort) ==
    IF st = <<>> THEN <<>>
    ELSE InsertDesc(SortByKey(SubSeq(st, 1, Len(st) - 1), sort), st[Len(st)], sort)

Heading(y) == [kind |-> "heading", year |-> y, rows |-> <<>>]
PlainLine(stat) == [kind |-> "line", year |-> 0, rows |-> <<stat>>]
Table(rows) == [kind |-> "table", year |-> 0, rows |-> rows]

PrintStats(st, pretty, sort) ==
    LET sorted == SortByKey(st, sort)
    IN  IF pretty THEN <<Table(sorted)>>
        ELSE [i \in 1..Len(sorted) |-> PlainLine(sorted[i])]

(***************************************************************************)
(* main.                                                                   *)
(***************************************************************************)
\* msg.timestamp.year()
YearOf(m) == m.timestamp.year

Min(S) == CHOOSE x \in S : \A y \in S : x <= y

\* the keys of the BTreeMap in the order its iterator yields them
RECURSIVE Ascending(_)
Ascending(S) == IF S = {} THEN <<>> ELSE <<Min(S)>> \o Ascending(S \ {Min(S)})

\* GroupByYear over the whole slice: no year left out of any group
GroupByYearUnfiltered(msgs) ==
    LET years == Ascending({YearOf(msgs[i]) : i \in 1..Len(msgs)})
    IN  [k \in 1..Len(years) |-> [year |-> years[k], msgs |-> msgs]]

\* grouped, collected into the BTreeMap: (year, msgs) pairs, each Vec in the
\* order of the pushes
GroupByYear(msgs) ==
    LET years == Ascending({YearOf(msgs[i]) : i \in 1..Len(msgs)})
    IN  [k \in 1..Len(years) |->
            LET InYear(m) == YearOf(m) = years[k]
            IN  [year |-> years[k], msgs |-> SelectSeq(msgs, InYear)]]

\* if args.user is false main returns
MainNoUser ==
    /\ pc = "parsed"
    /\ ~args.user
    /\ pc' = "done"
    /\ UNCHANGED <<content, pos, messages, buffer, current_timestamp,
                   current_author, args, grouped, stdout, stats, permuted, pstats>>

MainUser ==
    /\ pc = "parsed"
    /\ args.user
    /\ ~args.year
    /\ \E st \in ComputeStats(messages) :
          /\ stats' = st
          /\ stdout' = stdout \o PrintStats(st, args.pretty, args.sort)
    /\ pc' = "done"
    /\ UNCHANGED <<content, pos, messages, buffer, current_timestamp,
                   current_author, args, grouped, permuted, pstats>>

MainGroup ==
    /\ pc = "parsed"
    /\ args.user
    /\ args.year
    /\ grouped' = GroupByYear(messages)
    /\ pc' = "years"
    /\ UNCHANGED <<content, pos, messages, buffer, current_timestamp,
                   current_author, args, stdout, stats, permuted, pstats>>

\* one iteration of `for (year, msgs) in ...`
MainYear ==
    /\ pc = "years"
    /\ grouped # <<>>
    /\ \E st \in ComputeStats(Head(grouped).msgs) :
          /\ stats' = st
          /\ stdout' = stdout \o <<Heading(Head(grouped).year)>>
                              \o PrintStats(st, args.pretty, args.sort)
    /\ grouped' = Tail(grouped)
    /\ UNCHANGED <<content, pos, messages, buffer, current_timestamp,
                   current_author, pc, args, permuted, pstats>>

MainYearsDone ==
    /\ pc = "years"
    /\ grouped = <<>>
    /\ pc' = "done"
    /\ UNCHANGED <<content, pos, messages, buffer, current_timestamp,
                   current_author, args, grouped, stdout, stats, permuted, pstats>>

FileLinesSet ==
    { <<"[12/31/23, 11:59:59 PM]", " ", "a", ":", " ", "w", " ", "w">>,
      <<"[1/1/24, 12:00:00 AM]", " ", "b", ":", " ", "w">>,
      <<"[1/2/99, 9:05:07 AM]", " ", "b", ":", " ">>,
      <<"[2/30/24, 1:00:00 PM]", " ", "a", ":", " ", "w">>,
      <<"[1/1/24, 12:00:00 AM]", " ", "a">>,
      <<"w">> }

ArgsSet == [user : BOOLEAN, year : BOOLEAN, pretty : BOOLEAN, sort : {"Messages", "Words"}]

Init ==
    /\ content \in SeqsUpTo(FileLinesSet, MaxFileLines)
    /\ pos = 0
    /\ messages = <<>>
    /\ buffer = <<>>
    /\ current_timestamp = NoTimestamp
    /\ current_author = <<>>
    /\ pc = "parse"
    /\ args \in ArgsSet
    /\ grouped = <<>>
    /\ stdout = <<>>
    /\ stats = <<>>
    /\ permuted = <<>>
    /\ pstats = <<>>

Next ==
    \/ ParseHeader
    \/ ParseContinuation
    \/ ParseEnd
    \/ MainNoUser
    \/ MainUser
    \/ MainGroup
    \/ MainYear
    \/ MainYearsDone

Spec == Init /\ [][Next]_vars

(***************************************************************************)
(* The claims.                                                             *)
(***************************************************************************)
Range(f) == {f[i] : i \in DOMAIN f}

TsLeq(t, u) == t = u \/ TsLess(t, u)

RECURSIVE SumOf(_)
SumOf(ns) == IF ns = <<>> THEN 0 ELSE Head(ns) + SumOf(Tail(ns))

\* the indices of the header lines of a transcript, and the n-th of them
HeaderIndices(c) == {i \in 1..Len(c) : IsHeader(c[i])}
NthHeader(c, n) ==
    CHOOSE i \in HeaderIndices(c) : Cardinality({j \in HeaderIndices(c) : j <= i}) = n
BadDateIndices(c) == {i \in HeaderIndices(c) : ~DateParses(CapDate(c[i]))}

\* C1: when every header line of the transcript has a parseable date and
\* time, parse does not fail and returns one Message per header line, the
\* n-th carrying the author and the timestamp of the n-th header line.
C1_OneMessagePerHeader ==
    BadDateIndices(content) = {} =>
        /\ pc # "panicked"
        /\ pc = "parsed" =>
            /\ Len(messages) = Cardinality(HeaderIndices(content))
            /\ \A n \in 1..Len(messages) :
                  LET line == content[NthHeader(content, n)]
                  IN  /\ messages[n].author = CapAuthor(line)
                      /\ messages[n].timestamp = ParseFromStr(CapDate(line))

\* parse has returned two Messages of different authors from a transcript
\* that also holds a line that is no header
C1_Witness ==
    /\ pc = "parsed"
    /\ Len(messages) >= 2
    /\ messages[1].author # messages[2].author
    /\ \E i \in 1..Len(content) : ~IsHeader(content[i])

\* the text the claim gives the message of the header at line h: the rest of
\* the header, then a newline and the line for every line up to the next
\* header or the end, trimmed
RECURSIVE Continuations(_, _)
Continuations(c, k) ==
    IF k > Len(c) \/ IsHeader(c[k]) THEN <<>>
    ELSE <<"\n">> \o c[k] \o Continuations(c, k + 1)

ExpectedText(c, h) == Trim(CapRest(c[h]) \o Continuations(c, h + 1))

\* C10: each Message's text is the trimmed rest of its header line followed
\* by a newline and the line for each line up to the next header or the end
\* of the input; lines before the first header are in no Message, and the
\* message pending at the end of the input is emitted.
C10_TextAssembly ==
    /\ pc = "parsed" =>
        /\ Len(messages) = Cardinality(HeaderIndices(content))
        /\ \A n \in 1..Len(messages) :
              messages[n].text = ExpectedText(content, NthHeader(content, n))
    /\ (pc = "parse" /\ \A i \in 1..pos : ~IsHeader(content[i])) =>
        /\ messages = <<>>
        /\ current_timestamp = NoTimestamp

\* a transcript of a prelude line, a header and a continuation line has been
\* parsed into one Message whose text holds the newline
C10_Witness ==
    /\ pc = "parsed"
    /\ Len(content) = 3
    /\ ~IsHeader(content[1])
    /\ content[1] # <<>>
    /\ IsHeader(content[2])
    /\ ~IsHeader(content[3])
    /\ Len(messages) = 1
    /\ \E i \in 1..Len(messages[1].text) : messages[1].text[i] = "\n"
    /\ messages[1].text # CapRest(content[2]) \o <<"\n">> \o content[3]

Authors(msgs) == {msgs[i].author : i \in 1..Len(msgs)}

\* C2: compute_stats returns one Stat per distinct author, the num_messages
\* of the Stats sum to the number of messages and their num_words to the sum
\* of the word counts of the texts.
C2_CountConservation ==
    pc = "aggregated" =>
        /\ Len(stats) = Cardinality(Authors(messages))
        /\ {stats[i].user : i \in 1..Len(stats)} = Authors(messages)
        /\ SumOf([i \in 1..Len(stats) |-> stats[i].num_messages]) = Len(messages)
        /\ SumOf([i \in 1..Len(stats) |-> stats[i].num_words])
              = SumOf([i \in 1..Len(messages) |-> WordCount(messages[i].text)])

\* three messages of two authors, not all empty, have been aggregated
C2_Witness ==
    /\ pc = "aggregated"
    /\ Len(messages) = 3
    /\ Len(stats) = 2
    /\ \E i \in 1..3 : WordCount(messages[i].text) > 0
    /\ \E i \in 1..3 : WordCount(messages[i].text) = 0

\* C3: when no message of a non-empty slice has a word, every Stat has a
\* percent_words of 0.
C3_ZeroWordsPercentZero ==
    ( /\ pc = "aggregated"
      /\ messages # <<>>
      /\ \A i \in 1..Len(messages) : WordCount(messages[i].text) = 0 )
    => \A i \in 1..Len(stats) : stats[i].percent_words = F32Zero

\* C6: first_message of a Stat is no later than any message of its user and
\* is the timestamp of one of them.
C6_FirstSeenMinimal ==
    pc = "aggregated" =>
        \A i \in 1..Len(stats) :
            /\ \A k \in 1..Len(messages) :
                  messages[k].author = stats[i].user
                      => TsLeq(stats[i].first_message, messages[k].timestamp)
            /\ \E k \in 1..Len(messages) :
                  /\ messages[k].author = stats[i].user
                  /\ messages[k].timestamp = stats[i].first_message

\* an author's second message is earlier than the first, which was visited
\* first
C6_Witness ==
    /\ pc = "aggregated"
    /\ Len(messages) >= 2
    /\ messages[1].author = messages[2].author
    /\ TsLess(messages[2].timestamp, messages[1].timestamp)
    /\ \E i \in 1..Len(stats) :
          /\ stats[i].user = messages[1].author
          /\ stats[i].first_message # messages[1].timestamp

\* C9: compute_stats of a slice and of any permutation of it return the same
\* authors with the same num_messages, num_words, percent_messages,
\* percent_words and first_message.
C9_PermutationInvariant ==
    pc = "both" => Range(stats) = Range(pstats)

(***************************************************************************)
(* Standard output as blocks: the rows printed under each heading, or the  *)
(* rows of the one block printed without --year.                           *)
(***************************************************************************)
RECURSIVE BlocksOf(_)
BlocksOf(out) ==
    IF out = <<>> THEN <<>>
    ELSE LET before == BlocksOf(SubSeq(out, 1, Len(out) - 1))
             last == out[Len(out)]
         IN  IF last.kind = "heading"
             THEN Append(before, [year |-> last.year, rows |-> <<>>])
             ELSE IF before = <<>> THEN <<[year |-> 0, rows |-> last.rows]>>
             ELSE [before EXCEPT ![Len(before)].rows = @ \o last.rows]

\* the order of two authors as strings
CharRank(c) ==
    CASE c = "\n" -> 10 [] c = " " -> 32 [] c = ":" -> 58 [] c = "a" -> 97
      [] c = "b" -> 98 [] c = "w" -> 119 [] OTHER -> 91
StringLess(a, b) ==
    LexLess([i \in 1..Len(a) |-> CharRank(a[i])], [i \in 1..Len(b) |-> CharRank(b[i])], 1)

\* C4: the Stats are printed in descending order of the sort key, and Stats
\* of equal key in ascending order of user, whatever the order in which
\* compute_stats returned them.
C4_SortedWithTiebreak ==
    \A b \in Range(BlocksOf(stdout)) :
        \A i, j \in 1..Len(b.rows) :
            i < j =>
                \/ SortKey(b.rows[i], args.sort) > SortKey(b.rows[j], args.sort)
                \/ /\ SortKey(b.rows[i], args.sort) = SortKey(b.rows[j], args.sort)
                   /\ StringLess(b.rows[i].user, b.rows[j].user)

\* a line with the stamp and "] " of a header that is malformed: its date or
\* time does not parse, or no ": " follows
HasStamp(line) == Len(line) >= 2 /\ line[1] \in Stamps /\ line[2] = " "
Malformed(line) ==
    HasStamp(line) /\ (IsHeader(line) => ~DateParses(CapDate(line)))

\* C5 as stated: a transcript with a malformed line never runs to completion
\* and nothing is printed for it.
C5_MalformedIsFatal ==
    (\E i \in 1..Len(content) : Malformed(content[i]))
        => pc # "done" /\ stdout = <<>>

\* C5 as amended: a line that matches the header pattern and whose date or
\* time does not parse stops the run at that line with nothing printed; a
\* panic of parse has no other cause, so a stamped line without ": " is read
\* as a continuation line.
C5_BadDateIsFatal ==
    /\ BadDateIndices(content) # {} =>
        /\ pc \in {"parse", "panicked"}
        /\ pos < Min(BadDateIndices(content))
        /\ stdout = <<>>
    /\ pc = "panicked" =>
        /\ BadDateIndices(content) # {}
        /\ pos + 1 = Min(BadDateIndices(content))

\* with --user given, parse has panicked at a header with an unparseable date
\* that follows a parsed header and a stamped line without ": "
C5_Witness ==
    /\ pc = "panicked"
    /\ args.user
    /\ Len(messages) = 1
    /\ pos = 2
    /\ HasStamp(content[2])
    /\ ~IsHeader(content[2])
    /\ stdout = <<>>

MessagesOfYear(msgs, y) ==
    LET InYear(m) == YearOf(m) = y IN SelectSeq(msgs, InYear)

\* C7: with --user and --year one block is printed per calendar year of the
\* messages, in strictly ascending order of year, every message is counted
\* in exactly one block, and the Stats of a block are those compute_stats
\* gives for the messages of that year.
C7_YearBlocks ==
    (pc = "done" /\ args.user /\ args.year) =>
        LET blocks == BlocksOf(stdout) IN
        /\ {blocks[i].year : i \in 1..Len(blocks)}
              = {YearOf(messages[k]) : k \in 1..Len(messages)}
        /\ \A i, j \in 1..Len(blocks) : i < j => blocks[i].year < blocks[j].year
        /\ SumOf([i \in 1..Len(blocks) |->
                    SumOf([k \in 1..Len(blocks[i].rows) |->
                              blocks[i].rows[k].num_messages])]) = Len(messages)
        /\ \A i \in 1..Len(blocks) :
              LET of_year == StatMap(MessagesOfYear(messages, blocks[i].year))
              IN  /\ Len(blocks[i].rows) = Cardinality(DOMAIN of_year)
                  /\ Range(blocks[i].rows) = Range(of_year)

\* three messages of 2023, 2024 and 2023 again have been printed in two
\* blocks
C7_Witness ==
    /\ pc = "done"
    /\ args.user
    /\ args.year
    /\ Len(messages) = 3
    /\ YearOf(messages[1]) = YearOf(messages[3])
    /\ YearOf(messages[2]) > YearOf(messages[1])
    /\ Len(BlocksOf(stdout)) = 2

\* C8: a transcript without a header line yields no Messages and, with
\* --user, nothing on standard output, whatever --pretty, --year and --sort.
C8_NoHeadersNoOutput ==
    (HeaderIndices(content) = {} /\ pc \in {"parsed", "years", "done"}) =>
        /\ messages = <<>>
        /\ stats = <<>>
        /\ args.user => stdout = <<>>

====
